---- MODULE Spec2Model ----
(***************************************************************************)
(* Model of rodio's sources queue (src/src/queue.rs).                      *)
(*                                                                         *)
(* queue(keep_alive_if_empty) builds a SourcesQueueInput, shared by the    *)
(* producer threads, and a SourcesQueueOutput, pulled by one consumer.     *)
(* The only shared state is next_sounds, a Mutex<Vec<(source, sender)>>.   *)
(* The variables below are the fields of the two structs, the mutex, the   *)
(* position of every thread inside the method it is running, and history   *)
(* variables (appended, adopted, out, sent, ret, ...) that record what the *)
(* program did so that properties can speak about it.                      *)
(*                                                                         *)
(* Option<T> is modelled as a sequence: <<>> is None, <<x>> is Some(x).    *)
(***************************************************************************)
EXTENDS Integers, Sequences, FiniteSets, TLC

\* ---------------------------------------------------------------- bounds

\* Number of producer threads that hold a clone of the Arc<SourcesQueueInput>.
NumProducers == 2

\* Number of append / append_with_signal calls, all producers together, on a
\* queue that ends when it is empty.
MaxAppends == 2

\* The same for a queue that is kept alive: its silences are 440 samples long.
MaxAppendsKeepAlive == 1

\* Longest appended source, in samples.
MaxSrcLen == 2

Producers == 1..NumProducers

\* ------------------------------------------------------- Option and ids

None == <<>>

Some(x) == <<x>>

\* An entry is named by its producer and by that producer's call number.
EntryId(p, n) == <<p, n>>

\* The id carried by the samples of the two sources the queue itself builds.
EmptyId == <<0, 0>>

ZeroId == <<0, 1>>

\* -------------------------------------------------------------- sources

\* Zero::<S>::new(1, 44000): the channel count of the silence.
ZeroChannels == 1

\* Zero::<S>::new(1, 44000): the sample rate of the silence.
ZeroRate == 44000

\* Duration::from_millis(10): the duration the silence is clipped to.
FillerMillis == 10

\* The metadata a source reports: channels, rate, current frame length
\* (an Option) and total duration in milliseconds (an Option).
Format(c, r, f, d) == [channels |-> c, rate |-> r, frame |-> f, dur |-> d]

\* A source is an iterator over len samples, pos of which were taken.
Source(k, i, n, f) == [kind |-> k, id |-> i, len |-> n, pos |-> 0, fmt |-> f]

\* source::Empty: no sample at all.
Empty == Source("Empty", EmptyId, 0, Format(1, 48000, None, Some(0)))

\* Number of samples TakeDuration lets through: duration * rate * channels.
take_duration(channels, rate, millis) == (millis * rate * channels) \div 1000

\* A silence that takes over the format of the sources the model appends:
\* 2 channels at 48000 Hz.
silence_stereo == Source("Zero", ZeroId,
                         take_duration(2, 48000, FillerMillis),
                         Format(2, 48000, None, Some(FillerMillis)))

\* Zero::new(1, 44000).take_duration(Duration::from_millis(10)).
silence == Source("Zero", ZeroId,
                  take_duration(ZeroChannels, ZeroRate, FillerMillis),
                  Format(ZeroChannels, ZeroRate, None, Some(FillerMillis)))

\* The sources a producer may hand to append: one with no sample at all, and
\* one of MaxSrcLen samples that knows its frame length and total duration.
UserSources(id) ==
    { Source("Src", id, 0, Format(1, 22050, None, None)),
      Source("Src", id, MaxSrcLen, Format(2, 48000, Some(64), Some(20))) }

\* A sample remembers the source it came from and its index in that source.
Sample(s) == [src |-> s.id, idx |-> s.pos]

\* Iterator::next of a source: the sample, if any, and the source after it.
source_next(s) ==
    IF s.pos < s.len
    THEN [item |-> Some(Sample(s)), after |-> [s EXCEPT !.pos = s.pos + 1]]
    ELSE [item |-> None, after |-> s]

\* Source::get_current_frame_len of a source; a TakeDuration reports the
\* number of samples it still lets through.
source_frame_len(s) == IF s.kind = "Zero" THEN Some(s.len - s.pos) ELSE s.fmt.frame

source_channels(s) == s.fmt.channels

source_samples_rate(s) == s.fmt.rate

source_total_duration(s) == s.fmt.dur

\* ---------------------------------------------------------------- state

VARIABLES
    keep_alive_if_empty,  \* SourcesQueueOutput.keep_alive_if_empty
    next_sounds,          \* SourcesQueueInput.next_sounds: the Vec in the Mutex
    mutex,                \* holder of the Mutex: None or Some(thread)
    current,              \* SourcesQueueOutput.current
    signal_after_end,     \* SourcesQueueOutput.signal_after_end: Option<Sender>
    cpc,                  \* where the consumer is inside next() / go_next()
    picked,               \* go_next's local (next, signal_after_end)
    ppc,                  \* where each producer is inside append*
    arg,                  \* the entry each producer is about to push
    calls,                \* number of append* calls each producer has made
    ret,                  \* what the last finished pull returned
    appended,             \* history: the entries pushed, in push order
    adopted,              \* history: ids of the entries made current, in order
    out,                  \* history: samples of appended sources returned
    sent,                 \* history: ids whose notification was sent, in order
    ended,                \* history: Some(number of entries pushed so far) as
                          \* of the last pull that returned None
    budget,               \* history: Some(number of silent samples left in the
                          \* silence that was playing when a source with
                          \* samples was pushed on the empty Vec, less the
                          \* silent samples returned since)
    dropped,              \* ids of the entries whose Receiver was dropped
    delivered,            \* history: ids whose send(()) returned Ok, in order
    transitions,          \* history: go_next calls of the pull in progress
    popped                \* history: entries the pull in progress has removed

vars == <<keep_alive_if_empty, next_sounds, mutex, current, signal_after_end,
          cpc, picked, ppc, arg, calls, ret, appended, adopted, out, sent,
          ended, budget, dropped, delivered, transitions, popped>>

Consumer == 0

\* An element of next_sounds: the boxed source and the Option<Sender<()>>;
\* the sender is named by the id of the entry whose channel it belongs to.
Entry(src, sig) == [source |-> src, signal |-> sig]

NoEntry == Entry(Empty, None)

\* What a pull returned: nothing yet, Some(sample) or None.
NoRet == [tag |-> "none", src |-> EmptyId, idx |-> 0]

RetSome(x) == [tag |-> "Some", src |-> x.src, idx |-> x.idx]

RetNone == [tag |-> "None", src |-> EmptyId, idx |-> 0]

RECURSIVE SumCalls(_, _)
SumCalls(c, n) == IF n = 0 THEN 0 ELSE c[n] + SumCalls(c, n - 1)

\* Number of append* calls made so far, all producers together.
TotalCalls == SumCalls(calls, NumProducers)

\* ----------------------------------------------------------------- queue

\* queue(keep_alive_if_empty): an empty Vec behind a free Mutex, the Empty
\* placeholder as current and no sender; no thread is inside a method.
queue(keep_alive) ==
    /\ keep_alive_if_empty = keep_alive
    /\ next_sounds = <<>>
    /\ mutex = None
    /\ current = Empty
    /\ signal_after_end = None
    /\ cpc = "idle"
    /\ picked = NoEntry
    /\ ppc = [p \in Producers |-> "idle"]
    /\ arg = [p \in Producers |-> NoEntry]
    /\ calls = [p \in Producers |-> 0]
    /\ ret = NoRet
    /\ appended = <<>>
    /\ adopted = <<>>
    /\ out = <<>>
    /\ sent = <<>>
    /\ ended = None
    /\ budget = None
    /\ dropped = {}
    /\ delivered = <<>>
    /\ transitions = 0
    /\ popped = 0

Init == \E keep_alive \in BOOLEAN : queue(keep_alive)

\* The source the output plays: current, or the one go_next has taken under
\* the lock and is about to assign to current.
Active == IF cpc = "adopt" THEN picked.source ELSE current

\* ------------------------------------------------- SourcesQueueInput

\* A push that puts the entry in front of the others.
push_front(v, e) == <<e>> \o v

\* A push that puts the entry on the Vec twice.
push_twice(v, e) == Append(Append(v, e), e)

\* Vec::push.
push(v, e) == Append(v, e)

\* A producer enters append*: the source is boxed (and, with a signal, the
\* channel is made) before the lock is asked for.
Call(p, e) ==
    /\ ppc[p] = "idle"
    /\ TotalCalls < (IF keep_alive_if_empty THEN MaxAppendsKeepAlive ELSE MaxAppends)
    /\ ppc' = [ppc EXCEPT ![p] = "lock"]
    /\ arg' = [arg EXCEPT ![p] = e]
    /\ calls' = [calls EXCEPT ![p] = calls[p] + 1]
    /\ UNCHANGED <<dropped, delivered, transitions, popped,
                   keep_alive_if_empty, next_sounds, mutex, current,
                   signal_after_end, cpc, picked, ret, appended, adopted,
                   out, sent, ended, budget>>

\* append(source): the entry is (Box::new(source), None).
append(p) ==
    \E s \in UserSources(EntryId(p, calls[p] + 1)) : Call(p, Entry(s, None))

\* append_with_signal(source): the entry is (Box::new(source), Some(tx)).
append_with_signal(p) ==
    \E s \in UserSources(EntryId(p, calls[p] + 1)) : Call(p, Entry(s, Some(s.id)))

\* self.next_sounds.lock().unwrap() in a producer: blocks while it is held.
ProducerLock(p) ==
    /\ ppc[p] = "lock"
    /\ mutex = None
    /\ mutex' = Some(p)
    /\ ppc' = [ppc EXCEPT ![p] = "push"]
    /\ UNCHANGED <<dropped, delivered, transitions, popped,
                   keep_alive_if_empty, next_sounds, current, signal_after_end,
                   cpc, picked, arg, calls, ret, appended, adopted, out, sent,
                   ended, budget>>

\* A push whose guard is never dropped: the producer leaves append* with the
\* lock still held.
ProducerPush_keeps_lock(p) ==
    /\ ppc[p] = "push"
    /\ mutex = Some(p)
    /\ next_sounds' = push(next_sounds, arg[p])
    /\ appended' = Append(appended, arg[p])
    /\ ppc' = [ppc EXCEPT ![p] = "idle"]
    /\ arg' = [arg EXCEPT ![p] = NoEntry]
    /\ budget' = IF /\ next_sounds = <<>>
                    /\ Active.kind = "Zero"
                    /\ arg[p].source.len > 0
                 THEN Some(Active.len - Active.pos)
                 ELSE budget
    /\ UNCHANGED <<keep_alive_if_empty, mutex, current, signal_after_end, cpc,
                   picked, calls, ret, adopted, out, sent, ended,
                   dropped, delivered, transitions, popped>>

\* .push(entry) under the guard, which is dropped at the end of the statement;
\* append* then returns (append_with_signal returns the receiver).
ProducerPush(p) ==
    /\ ppc[p] = "push"
    /\ mutex = Some(p)
    /\ next_sounds' = push(next_sounds, arg[p])
    /\ appended' = Append(appended, arg[p])
    /\ mutex' = None
    /\ ppc' = [ppc EXCEPT ![p] = "idle"]
    /\ arg' = [arg EXCEPT ![p] = NoEntry]
    /\ budget' = IF /\ next_sounds = <<>>
                    /\ Active.kind = "Zero"
                    /\ arg[p].source.len > 0
                 THEN Some(Active.len - Active.pos)
                 ELSE budget
    /\ UNCHANGED <<dropped, delivered, transitions, popped,
                   keep_alive_if_empty, current, signal_after_end, cpc, picked,
                   calls, ret, adopted, out, sent, ended>>

\* ------------------------------------------------ SourcesQueueOutput

\* Sender::send(()): Err once the Receiver of the channel has been dropped,
\* Ok otherwise.
send(tx, gone) == IF tx \in gone THEN "Err" ELSE "Ok"

\* A next() that notifies as soon as it has returned the last sample of
\* current: it takes the sender and sends in the same pull.
next_loop_eager_signal ==
    /\ LET r == source_next(current) IN
        /\ current' = r.after
        /\ IF r.item # None
           THEN /\ ret' = RetSome(r.item[1])
                /\ out' = IF current.kind = "Src" THEN Append(out, r.item[1]) ELSE out
                /\ budget' = IF current.kind = "Src" THEN None
                             ELSE IF budget = None THEN None
                             ELSE Some(budget[1] - 1)
                /\ cpc' = "idle"
                /\ transitions' = 0
                /\ popped' = 0
                /\ IF r.after.pos = r.after.len /\ signal_after_end # None
                   THEN /\ sent' = Append(sent, signal_after_end[1])
                        /\ delivered' =
                              IF send(signal_after_end[1], dropped) = "Ok"
                              THEN Append(delivered, signal_after_end[1])
                              ELSE delivered
                        /\ signal_after_end' = None
                   ELSE UNCHANGED <<sent, delivered, signal_after_end>>
           ELSE /\ cpc' = "go_next"
                /\ UNCHANGED <<ret, out, budget, transitions, popped, sent,
                               delivered, signal_after_end>>
    /\ UNCHANGED <<dropped, keep_alive_if_empty, next_sounds, mutex,
                   picked, ppc, arg, calls, appended, adopted, ended>>

\* next(), top of the loop: if let Some(sample) = self.current.next()
\* { return Some(sample) }; otherwise go_next is called.
next_loop ==
    /\ LET r == source_next(current) IN
        /\ current' = r.after
        /\ IF r.item # None
           THEN /\ ret' = RetSome(r.item[1])
                /\ out' = IF current.kind = "Src" THEN Append(out, r.item[1]) ELSE out
                /\ budget' = IF current.kind = "Src" THEN None
                             ELSE IF budget = None THEN None
                             ELSE Some(budget[1] - 1)
                /\ cpc' = "idle"
                /\ transitions' = 0
                /\ popped' = 0
           ELSE /\ cpc' = "go_next"
                /\ UNCHANGED <<ret, out, budget, transitions, popped>>
    /\ UNCHANGED <<dropped, delivered,
                   keep_alive_if_empty, next_sounds, mutex, signal_after_end,
                   picked, ppc, arg, calls, appended, adopted, sent, ended>>

\* The consumer calls next() on the output: the first turn of its loop.
next ==
    /\ cpc = "idle"
    /\ next_loop

\* next() after go_next returned Ok(()): one more turn of the loop.
next_again ==
    /\ cpc = "loop"
    /\ next_loop

\* A go_next that sends on the sender without take(): the field keeps it.
go_next_signal_no_take ==
    /\ cpc = "go_next"
    /\ sent' = IF signal_after_end # None THEN Append(sent, signal_after_end[1]) ELSE sent
    /\ delivered' = IF signal_after_end # None
                       /\ send(signal_after_end[1], dropped) = "Ok"
                    THEN Append(delivered, signal_after_end[1]) ELSE delivered
    /\ transitions' = transitions + 1
    /\ cpc' = "lock"
    /\ UNCHANGED <<dropped, popped,
                   keep_alive_if_empty, next_sounds, mutex, current, picked,
                   ppc, arg, calls, ret, appended, adopted, out, ended, budget,
                   signal_after_end>>

\* A go_next that locks the Vec first and takes and sends the sender inside
\* the guarded block.
go_next_signal_after_lock ==
    /\ cpc = "go_next"
    /\ mutex = None
    /\ mutex' = Some(Consumer)
    /\ sent' = IF signal_after_end # None THEN Append(sent, signal_after_end[1]) ELSE sent
    /\ delivered' = IF signal_after_end # None
                       /\ send(signal_after_end[1], dropped) = "Ok"
                    THEN Append(delivered, signal_after_end[1]) ELSE delivered
    /\ transitions' = transitions + 1
    /\ signal_after_end' = None
    /\ cpc' = "locked"
    /\ UNCHANGED <<dropped, popped,
                   keep_alive_if_empty, next_sounds, current, picked,
                   ppc, arg, calls, ret, appended, adopted, out, ended, budget>>

\* A go_next that gives up when the send returns Err: it returns Err(())
\* and the pull returns None.
go_next_signal_try ==
    /\ cpc = "go_next"
    /\ sent' = IF signal_after_end # None THEN Append(sent, signal_after_end[1]) ELSE sent
    /\ signal_after_end' = None
    /\ IF signal_after_end # None /\ send(signal_after_end[1], dropped) = "Err"
       THEN /\ ret' = RetNone
            /\ ended' = Some(Len(appended))
            /\ cpc' = "idle"
            /\ transitions' = 0
            /\ UNCHANGED delivered
       ELSE /\ delivered' = IF signal_after_end # None
                            THEN Append(delivered, signal_after_end[1])
                            ELSE delivered
            /\ transitions' = transitions + 1
            /\ cpc' = "lock"
            /\ UNCHANGED <<ret, ended>>
    /\ UNCHANGED <<dropped, popped,
                   keep_alive_if_empty, next_sounds, mutex, current, picked,
                   ppc, arg, calls, appended, adopted, out, budget>>

\* go_next, first statement: self.signal_after_end.take(), and if it held a
\* sender, send(()) on it, whatever the send returns.
go_next_signal ==
    /\ cpc = "go_next"
    /\ sent' = IF signal_after_end # None THEN Append(sent, signal_after_end[1]) ELSE sent
    /\ delivered' = IF signal_after_end # None
                       /\ send(signal_after_end[1], dropped) = "Ok"
                    THEN Append(delivered, signal_after_end[1]) ELSE delivered
    /\ transitions' = transitions + 1
    /\ signal_after_end' = None
    /\ cpc' = "lock"
    /\ UNCHANGED <<dropped, popped,
                   keep_alive_if_empty, next_sounds, mutex, current, picked,
                   ppc, arg, calls, ret, appended, adopted, out, ended, budget>>

\* go_next: self.input.next_sounds.lock().unwrap().
go_next_lock ==
    /\ cpc = "lock"
    /\ mutex = None
    /\ mutex' = Some(Consumer)
    /\ cpc' = "locked"
    /\ UNCHANGED <<dropped, delivered, transitions, popped,
                   keep_alive_if_empty, next_sounds, current, signal_after_end,
                   picked, ppc, arg, calls, ret, appended, adopted, out, sent,
                   ended, budget>>

\* A remove(0) that hands out the first element and leaves it in the Vec.
remove0_keep(v) == [item |-> Head(v), rest |-> v]

\* A pop() in the place of remove(0): the last element and the others.
remove_last(v) == [item |-> v[Len(v)], rest |-> SubSeq(v, 1, Len(v) - 1)]

\* Vec::remove(0): the first element and the rest.
remove0(v) == [item |-> Head(v), rest |-> Tail(v)]

\* A block that ignores keep_alive_if_empty and always ends on an empty Vec.
go_next_block_no_keep_alive(v, keep_alive) ==
    IF Len(v) = 0
    THEN [pick |-> None, rest |-> v]
    ELSE [pick |-> Some(Head(v)), rest |-> Tail(v)]

\* A block that takes a Vec of one element for an empty one.
go_next_block_off_by_one(v, keep_alive) ==
    IF Len(v) <= 1
    THEN IF keep_alive
         THEN [pick |-> Some(Entry(silence, None)), rest |-> v]
         ELSE [pick |-> None, rest |-> v]
    ELSE [pick |-> Some(Head(v)), rest |-> Tail(v)]

\* go_next, the block under the guard: what it evaluates to (Some(entry)) or
\* None for the early return Err(()), and the Vec it leaves.
go_next_block(v, keep_alive) ==
    IF Len(v) = 0
    THEN IF keep_alive
         THEN [pick |-> Some(Entry(silence, None)), rest |-> v]
         ELSE [pick |-> None, rest |-> v]
    ELSE [pick |-> Some(remove0(v).item), rest |-> remove0(v).rest]

\* A guarded block that makes the silence current before it looks at
\* keep_alive_if_empty, and then returns Err(()).
go_next_locked_silence_first ==
    /\ cpc = "locked"
    /\ mutex = Some(Consumer)
    /\ LET b == go_next_block(next_sounds, keep_alive_if_empty) IN
        /\ next_sounds' = b.rest
        /\ IF b.pick = None
           THEN /\ ret' = RetNone
                /\ ended' = Some(Len(appended))
                /\ cpc' = "idle"
                /\ current' = silence
                /\ transitions' = 0
                /\ popped' = 0
                /\ UNCHANGED picked
           ELSE /\ picked' = b.pick[1]
                /\ cpc' = "adopt"
                /\ popped' = popped + Len(next_sounds) - Len(b.rest)
                /\ UNCHANGED <<ret, ended, current, transitions>>
    /\ mutex' = None
    /\ UNCHANGED <<dropped, delivered,
                   keep_alive_if_empty, signal_after_end, ppc, arg,
                   calls, appended, adopted, out, sent, budget>>

\* A guarded block whose guard lives on to the end of go_next: the lock is
\* still held while the picked entry becomes current.
go_next_locked_keeps_guard ==
    /\ cpc = "locked"
    /\ mutex = Some(Consumer)
    /\ LET b == go_next_block(next_sounds, keep_alive_if_empty) IN
        /\ next_sounds' = b.rest
        /\ IF b.pick = None
           THEN /\ ret' = RetNone
                /\ ended' = Some(Len(appended))
                /\ cpc' = "idle"
                /\ transitions' = 0
                /\ popped' = 0
                /\ mutex' = None
                /\ UNCHANGED picked
           ELSE /\ picked' = b.pick[1]
                /\ cpc' = "adopt"
                /\ popped' = popped + Len(next_sounds) - Len(b.rest)
                /\ UNCHANGED <<ret, ended, transitions, mutex>>
    /\ UNCHANGED <<dropped, delivered,
                   keep_alive_if_empty, current, signal_after_end, ppc, arg,
                   calls, appended, adopted, out, sent, budget>>

\* go_next, the guarded block; the guard is dropped at its end or at the
\* return Err(()), on which next() returns None.
go_next_locked ==
    /\ cpc = "locked"
    /\ mutex = Some(Consumer)
    /\ LET b == go_next_block(next_sounds, keep_alive_if_empty) IN
        /\ next_sounds' = b.rest
        /\ IF b.pick = None
           THEN /\ ret' = RetNone
                /\ ended' = Some(Len(appended))
                /\ cpc' = "idle"
                /\ transitions' = 0
                /\ popped' = 0
                /\ UNCHANGED picked
           ELSE /\ picked' = b.pick[1]
                /\ cpc' = "adopt"
                /\ popped' = popped + Len(next_sounds) - Len(b.rest)
                /\ UNCHANGED <<ret, ended, transitions>>
    /\ mutex' = None
    /\ UNCHANGED <<dropped, delivered,
                   keep_alive_if_empty, current, signal_after_end, ppc, arg,
                   calls, appended, adopted, out, sent, budget>>

\* A go_next that forgets the entry's sender: signal_after_end stays None.
go_next_adopt_no_signal ==
    /\ cpc = "adopt"
    /\ current' = picked.source
    /\ signal_after_end' = None
    /\ adopted' = IF picked.source.kind = "Src"
                  THEN Append(adopted, picked.source.id) ELSE adopted
    /\ picked' = NoEntry
    /\ cpc' = "loop"
    /\ UNCHANGED <<dropped, delivered, transitions, popped,
                   keep_alive_if_empty, next_sounds, mutex, ppc, arg, calls,
                   ret, appended, out, sent, ended, budget>>

\* go_next, after the block: self.current = next;
\* self.signal_after_end = signal_after_end; Ok(()), and next() loops.
go_next_adopt ==
    /\ cpc = "adopt"
    /\ current' = picked.source
    /\ signal_after_end' = picked.signal
    /\ adopted' = IF picked.source.kind = "Src"
                  THEN Append(adopted, picked.source.id) ELSE adopted
    /\ picked' = NoEntry
    /\ cpc' = "loop"
    /\ UNCHANGED <<dropped, delivered, transitions, popped,
                   keep_alive_if_empty, next_sounds, mutex, ppc, arg, calls,
                   ret, appended, out, sent, ended, budget>>

\* Source::get_current_frame_len of the output.
get_current_frame_len == source_frame_len(current)

\* Source::get_channels of the output.
get_channels == source_channels(current)

\* Source::get_samples_rate of the output.
get_samples_rate == source_samples_rate(current)

\* A get_total_duration that delegates to current like the other three.
get_total_duration_of_current == source_total_duration(current)

\* Source::get_total_duration of the output.
get_total_duration == None

\* The caller of append_with_signal drops the Receiver it was handed: from
\* then on a send on the entry's Sender returns Err.
DropReceiver(p) ==
    /\ \E k \in 1..Len(appended) :
        /\ appended[k].signal # None
        /\ appended[k].source.id[1] = p
        /\ appended[k].source.id \notin dropped
        /\ dropped' = dropped \cup {appended[k].source.id}
    /\ UNCHANGED <<keep_alive_if_empty, next_sounds, mutex, current,
                   signal_after_end, cpc, picked, ppc, arg, calls, ret,
                   appended, adopted, out, sent, ended, budget, delivered,
                   transitions, popped>>

\* ----------------------------------------------------------- behaviours

Next ==
    \/ \E p \in Producers : append(p)
    \/ \E p \in Producers : append_with_signal(p)
    \/ \E p \in Producers : ProducerLock(p)
    \/ \E p \in Producers : ProducerPush(p)
    \/ next
    \/ next_again
    \/ go_next_signal
    \/ go_next_lock
    \/ go_next_locked
    \/ go_next_adopt

Spec == Init /\ [][Next]_vars

\* A step of the consumer: it keeps pulling, and a pull runs on.
ConsumerStep ==
    next \/ next_again \/ go_next_signal \/ go_next_lock \/ go_next_locked \/ go_next_adopt

\* The threads are scheduled: the consumer goes on pulling, and a producer
\* that holds the lock goes on to push and to release it.
FairSpec ==
    /\ Init
    /\ [][Next]_vars
    /\ WF_vars(ConsumerStep)
    /\ \A p \in Producers : WF_vars(ProducerPush(p))

\* The threads are scheduled and the Mutex is fair: a thread that asks for
\* the lock again and again while it is free again and again gets it.
LockFairSpec ==
    /\ Init
    /\ [][Next]_vars
    /\ WF_vars(ConsumerStep)
    /\ SF_vars(go_next_lock)
    /\ \A p \in Producers : SF_vars(ProducerLock(p)) /\ WF_vars(ProducerPush(p))

\* The behaviours in which callers may also drop the Receivers they hold.
DropNext ==
    \/ Next
    \/ \E p \in Producers : DropReceiver(p)

DropSpec == Init /\ [][DropNext]_vars

\* ------------------------------------------------------ history helpers

\* The value of a returned sample: Zero yields the zero value; the samples
\* of the appended sources are given values other than zero, so that a
\* sample of the silence cannot be taken for one of theirs.
sample_value(x) == IF x.src = ZeroId THEN 0 ELSE x.idx + 1

\* The samples of an entry's source, in the order the source yields them.
SamplesOf(e) == [k \in 1..e.source.len |-> [src |-> e.source.id, idx |-> k - 1]]

\* The samples of the entries of a sequence, entry after entry.
RECURSIVE Flatten(_)
Flatten(es) == IF es = <<>> THEN <<>> ELSE SamplesOf(Head(es)) \o Flatten(Tail(es))

\* The ids of the entries of a sequence.
IdsOf(es) == [k \in 1..Len(es) |-> es[k].source.id]

IsPrefix(a, b) == Len(a) <= Len(b) /\ SubSeq(b, 1, Len(a)) = a

NoDuplicates(q) == \A i, j \in 1..Len(q) : q[i] = q[j] => i = j

\* A producer's calls reach the sequence in the order it made them.
InCallOrder(ids) ==
    \A i, j \in 1..Len(ids) : (i < j /\ ids[i][1] = ids[j][1]) => ids[i][2] < ids[j][2]

\* ------------------------------------------------------------------ C1

\* C1: FIFO play order. The samples of appended sources that the output has
\* returned are, at every moment, an initial part of: all samples of the first
\* entry pushed, then all samples of the second, and so on; and the entries of
\* one producer are pushed in the order of its calls. So no sample of a later
\* append is returned before the last sample of an earlier one, and within a
\* source nothing is skipped or reordered.
C1_FifoPlayOrder ==
    /\ IsPrefix(out, Flatten(appended))
    /\ InCallOrder(IdsOf(appended))

\* One producer has made every call, with and without signal, its first two
\* sources had samples, and every sample of every source has been returned.
C1_Witness ==
    /\ Len(appended) = MaxAppends
    /\ \A k \in 1..MaxAppends : appended[k].source.id = EntryId(1, k)
    /\ appended[1].source.len = MaxSrcLen /\ appended[2].source.len = MaxSrcLen
    /\ appended[1].signal = None /\ appended[2].signal # None
    /\ next_sounds = <<>>
    /\ Len(out) >= 2 * MaxSrcLen
    /\ out = Flatten(appended)

\* ------------------------------------------------------------------ C2

\* The entries go_next has taken out of the Vec so far, in order: those made
\* current and the one about to be.
Taken ==
    IF cpc = "adopt" /\ picked.source.kind = "Src"
    THEN Append(adopted, picked.source.id) ELSE adopted

\* C2: concurrent append safety. Whatever the interleaving of the producers'
\* pushes and the consumer's pops, the entries pushed so far are exactly the
\* entries taken by go_next followed by the entries still in the Vec, in push
\* order: none is lost, none is taken twice, and each producer's entries are
\* taken in the order that producer appended them.
C2_EachEntryOnce ==
    /\ IdsOf(appended) = Taken \o IdsOf(next_sounds)
    /\ NoDuplicates(IdsOf(appended))
    /\ NoDuplicates(adopted)
    /\ InCallOrder(adopted)

\* Two producers have appended, the entry of producer 2 was pushed before
\* that of producer 1, and every entry has been made current, once.
C2_Witness ==
    /\ Len(adopted) = MaxAppends
    /\ calls = [p \in Producers |-> IF p <= 2 THEN 1 ELSE 0]
    /\ adopted[1] = EntryId(2, 1) /\ adopted[2] = EntryId(1, 1)
    /\ next_sounds = <<>>
    /\ cpc = "loop"

\* ------------------------------------------------------------------ C3

\* Position of the entry with this id in the push order (0 if not pushed).
PushIndex(id) ==
    IF \E k \in 1..Len(appended) : appended[k].source.id = id
    THEN CHOOSE k \in 1..Len(appended) : appended[k].source.id = id
    ELSE 0

\* C3: signal safety. A notification is sent at most once, only for an entry
\* that was pushed with a sender, and only when every sample of that entry and
\* of every entry pushed before it has been returned; it is not sent while the
\* entry is in the Vec or is the current source with samples left.
C3_SignalSafety ==
    /\ NoDuplicates(sent)
    /\ \A i \in 1..Len(sent) :
        LET k == PushIndex(sent[i]) IN
        /\ k > 0
        /\ appended[k].signal = Some(sent[i])
        /\ IsPrefix(Flatten(SubSeq(appended, 1, k)), out)
        /\ \A j \in 1..Len(next_sounds) : next_sounds[j].source.id # sent[i]
        /\ ~(Active.id = sent[i] /\ Active.pos < Active.len)

\* The second entry pushed had samples and a signal, an entry with samples was
\* pushed before it, and its notification has been sent.
C3_Witness ==
    /\ Len(appended) >= 2
    /\ appended[1].source.len > 0
    /\ appended[2].source.len > 0
    /\ appended[2].signal # None
    /\ \E i \in 1..Len(sent) : sent[i] = appended[2].source.id

\* ------------------------------------------------------------------ C4

WasSent(id) == \E i \in 1..Len(sent) : sent[i] = id

\* The notification of every entry pushed with a sender has been sent.
AllSignalsSent ==
    \A k \in 1..Len(appended) :
        appended[k].signal # None => WasSent(appended[k].source.id)

\* C4: signal liveness. With the consumer pulling on and every source finite,
\* the notification of every entry pushed by append_with_signal is eventually
\* sent, with keep_alive_if_empty true or false, and also when the entry is
\* pushed after the output has returned None. (An entry once pushed stays
\* pushed and a notification once sent stays sent, so this is: again and
\* again, every notification of an entry pushed so far has been sent.)
C4_SignalLiveness == []<>AllSignalsSent

\* The output had returned None with nothing pushed, an entry with a signal
\* was pushed after that, and its notification has been sent.
C4_Witness ==
    /\ ~keep_alive_if_empty
    /\ Len(appended) >= 1
    /\ appended[1].signal # None
    /\ WasSent(appended[1].source.id)
    /\ ended = Some(0)

\* ------------------------------------------------------------------ C5

\* C5: keep-alive never ends. With keep_alive_if_empty = true no pull returns
\* None: every pull that has finished returned a sample, whatever was
\* appended, sources without samples included.
C5_KeepAliveNeverEnds ==
    keep_alive_if_empty => (ret.tag # "None" /\ ended = None)

\* A kept-alive queue was given a source without samples, has taken it, and
\* the pull that found it exhausted returned a sample of a silence.
C5_Witness ==
    /\ keep_alive_if_empty
    /\ Len(adopted) >= 1
    /\ appended[1].source.len = 0
    /\ cpc = "idle"
    /\ ret.tag = "Some" /\ ret.src = ZeroId /\ ret.idx = 0

\* ------------------------------------------------------------------ C6

\* This step ends a pull: next() returns.
ConsumerReturns == cpc' = "idle" /\ (cpc # "idle" \/ current' # current)

\* This step is the consumer's guarded block in go_next.
InspectsVec == cpc = "locked" /\ cpc' # "locked"

Exhausted(s) == s.pos = s.len

\* C6: exhaustion with keep-alive disabled. With keep_alive_if_empty = false a
\* pull returns None exactly in the step in which go_next, under the lock,
\* finds the Vec empty; current is exhausted then, so no source with samples
\* left is current or in the Vec when None is returned; and with nothing
\* pushed, a finished pull has returned None.
C6_Exhaustion ==
    [][ ~keep_alive_if_empty =>
          /\ (ConsumerReturns /\ ret' = RetNone) <=> (InspectsVec /\ next_sounds = <<>>)
          /\ InspectsVec => Exhausted(current)
          /\ (ConsumerReturns /\ ret' = RetNone) =>
                (next_sounds' = <<>> /\ Exhausted(current'))
          /\ (appended' = <<>> /\ ret' # NoRet) => ret' = RetNone
      ]_vars

\* Two entries were pushed, the second without samples; the pull that took it
\* went on, found the Vec empty and returned None, everything being played.
C6_Witness ==
    /\ ~keep_alive_if_empty
    /\ Len(appended) = 2
    /\ appended[1].source.len > 0
    /\ appended[2].source.len = 0
    /\ Len(adopted) = 2
    /\ cpc = "idle"
    /\ ret = RetNone
    /\ out = Flatten(appended)

\* ------------------------------------------------------------------ C7

C8_IdempotentDrain ==
    [][ (~keep_alive_if_empty /\ ended # None /\ Len(appended') = ended[1]) =>
          /\ sent' = sent
          /\ next_sounds = <<>> /\ next_sounds' = <<>>
          /\ current' = current
          /\ signal_after_end = None /\ signal_after_end' = None
          /\ cpc' = "idle" => ret' = RetNone
          /\ ended' = ended
      ]_vars

\* A source with a signal was played and the output returned None; nothing was
\* pushed since, and a further pull has reached the guarded block of go_next.
C8_Witness ==
    /\ ~keep_alive_if_empty
    /\ ended = Some(1)
    /\ Len(appended) = 1
    /\ appended[1].signal # None
    /\ appended[1].source.len > 0
    /\ cpc = "locked"
    /\ ret = RetNone

\* ------------------------------------------------------------------ C9

\* C9: bounded pickup latency under keep-alive. When a source with samples is
\* pushed on the empty Vec while a silence is playing, the consumer gets no
\* more silent samples than that silence had left (at most 440) before the
\* first sample of the source; and go_next never takes a silence while the
\* Vec holds an entry.
C9_PickupLatency ==
    [][ keep_alive_if_empty =>
          /\ budget' # None => (budget'[1] >= 0 /\ budget'[1] <= 440)
          /\ (InspectsVec /\ picked'.source.kind = "Zero") => next_sounds = <<>>
      ]_vars

\* A source with samples was pushed during a silence, the consumer has been
\* given the last sample of that silence, and the source is now current.
C9_Witness ==
    /\ keep_alive_if_empty
    /\ budget = Some(0)
    /\ ret.tag = "Some" /\ ret.src = ZeroId /\ ret.idx = 439
    /\ current.kind = "Src" /\ current.pos = 0 /\ current.len > 0
    /\ cpc = "loop"

\* ----------------------------------------------------------------- C10

\* C10: metadata passthrough. The channel count, sample rate and current frame
\* length the output reports are those of the source that is active: of the
\* Empty placeholder as long as nothing was adopted, of the 1-channel 44000 Hz
\* silence while a silence is current, and otherwise those the entry adopted
\* last was appended with; the total duration it reports is None, also when
\* the active source knows its own.
C10_MetadataPassthrough ==
    /\ get_total_duration = None
    /\ current.kind = "Empty" =>
          /\ adopted = <<>>
          /\ get_channels = source_channels(Empty)
          /\ get_samples_rate = source_samples_rate(Empty)
          /\ get_current_frame_len = source_frame_len(Empty)
    /\ current.kind = "Zero" =>
          /\ keep_alive_if_empty
          /\ get_channels = ZeroChannels
          /\ get_samples_rate = ZeroRate
          /\ get_current_frame_len = Some(silence.len - current.pos)
    /\ current.kind = "Src" =>
          /\ adopted # <<>>
          /\ current.id = adopted[Len(adopted)]
          /\ LET e == appended[PushIndex(current.id)] IN
                /\ get_channels = source_channels(e.source)
                /\ get_samples_rate = source_samples_rate(e.source)
                /\ get_current_frame_len = source_frame_len(e.source)

\* The active source is an appended one that knows its total duration and
\* that differs from the placeholder and the silence in channels and rate.
C10_Witness ==
    /\ current.kind = "Src"
    /\ current.pos > 0
    /\ source_total_duration(current) # None
    /\ get_channels = 2 /\ get_samples_rate = 48000
    /\ get_current_frame_len = Some(64)

\* ------------------------------------------------------------------ C11

\* A step in which the consumer pulls a sample out of current, sends a
\* notification, or assigns current.
TouchesCurrent ==
    \/ current' # current
    \/ sent' # sent
    \/ (ret' # ret /\ ret'.tag = "Some")

\* C11: the lock is held only for one push or for one look at the Vec with
\* the removal of its head: the consumer holds it exactly inside the guarded
\* block and a producer exactly between its lock() and its push; every
\* change of the Vec is one push or one head removal made by the holder in
\* the step that releases the lock; the consumer does not hold the lock in a
\* step that takes a sample from current or sends a notification, and a pull
\* that gets its sample from current leaves the lock as it is.
C11_LockScope ==
    [][ /\ (mutex' = Some(Consumer)) <=> (cpc' = "locked")
        /\ \A p \in Producers : (mutex' = Some(p)) <=> (ppc'[p] = "push")
        /\ next_sounds' # next_sounds =>
              /\ mutex # None
              /\ mutex' = None
              /\ \/ /\ mutex = Some(Consumer)
                    /\ next_sounds' = Tail(next_sounds)
                 \/ /\ mutex # Some(Consumer)
                    /\ next_sounds' = Append(next_sounds, arg[mutex[1]])
        /\ TouchesCurrent => mutex # Some(Consumer) /\ mutex' # Some(Consumer)
        /\ (cpc = "idle" /\ cpc' = "idle" /\ current' # current) => mutex' = mutex
      ]_vars

\* A notification has just been sent for the source that is still current,
\* and the consumer waits for the lock that a producer holds.
C11_Witness ==
    /\ cpc = "lock"
    /\ sent # <<>>
    /\ sent[Len(sent)] = current.id
    /\ \E p \in Producers : mutex = Some(p)

\* ------------------------------------------------------------------ C12

\* A thread is blocked when it waits in lock() for a Mutex another one holds.
ConsumerBlocked == cpc = "lock" /\ mutex # None

ProducerBlocked(p) == ppc[p] = "lock" /\ mutex # None

\* The step that drops the guard is open to whichever thread holds the lock.
HolderCanRelease ==
    /\ mutex = Some(Consumer) => ENABLED go_next_locked
    /\ \A p \in Producers : mutex = Some(p) => ENABLED ProducerPush(p)

PopsOne ==
    /\ next_sounds # <<>>
    /\ next_sounds' = Tail(next_sounds)
    /\ picked' = Head(next_sounds)
    /\ popped' = popped + 1
    /\ cpc' = "adopt"

\* The guarded block leaves the Vec alone and hands on a silence that has
\* samples to give.
InstallsFiller ==
    /\ next_sounds' = next_sounds
    /\ picked'.source.kind = "Zero"
    /\ picked'.source.pos < picked'.source.len
    /\ popped' = popped
    /\ cpc' = "adopt"

\* The guarded block leaves the Vec alone and the pull returns None.
EndsPull ==
    /\ next_sounds' = next_sounds
    /\ ret' = RetNone
    /\ cpc' = "idle"

\* C13: every pull returns, with a sample or with None; while it runs, the
\* go_next calls it has made are at most one more than the entries it has
\* removed from the Vec; each guarded block removes exactly one entry, or
\* hands on a silence, or ends the pull with None; and the turn of the loop
\* that follows the adoption of a silence returns a sample.
C13_PullProgress ==
    /\ [][ /\ transitions' <= popped' + 1
           /\ popped' <= Len(appended')
           /\ InspectsVec => (PopsOne \/ InstallsFiller \/ EndsPull)
           /\ (cpc = "loop" /\ current.kind = "Zero" /\ cpc' # "loop") =>
                 (cpc' = "idle" /\ ret'.tag = "Some" /\ ret'.src = ZeroId)
         ]_vars
    /\ []<>(cpc = "idle")

\* A pull is in its second go_next after it removed one entry, a source
\* without samples: the second guarded block is about to run.
C13_Witness ==
    /\ cpc = "locked"
    /\ transitions = 2
    /\ popped = 1

\* ------------------------------------------------------------------ C14

\* The source was pushed by append_with_signal.
HasSender(s) == s.kind = "Src" /\ appended[PushIndex(s.id)].signal # None

\* The entries pushed up to and including the one with this id.
UpTo(id) == SubSeq(appended, 1, PushIndex(id))

\* C14: the step of go_next that sends a notification is its first one: it
\* is taken before the consumer locks the Vec and before a successor is
\* picked or made current, the notification is the one of the source that
\* is still current, and the samples returned so far are exactly those of
\* the entries pushed up to that source, none of an entry pushed after it.
\* Whatever the guarded block then does (hand on an entry, hand on a
\* silence, or end the pull), the sender is gone from signal_after_end and
\* the notification of a current source pushed with a sender has been sent.
C14_TransitionStepOrder ==
    [][ /\ sent' # sent =>
              /\ cpc = "go_next"
              /\ cpc' = "lock"
              /\ mutex # Some(Consumer)
              /\ mutex' # Some(Consumer)
              /\ sent' = Append(sent, current.id)
              /\ picked = NoEntry
              /\ UNCHANGED <<current, next_sounds, adopted, picked, out>>
              /\ out = Flatten(UpTo(current.id))
        /\ InspectsVec =>
              /\ signal_after_end = None
              /\ HasSender(current) => WasSent(current.id)
      ]_vars

\* The notification of the current source, which had samples, has been
\* sent; the consumer has not locked the Vec yet, and the Vec holds a
\* successor with samples, none of which has been returned.
C14_Witness ==
    /\ cpc = "lock"
    /\ current.len > 0
    /\ sent = <<current.id>>
    /\ next_sounds # <<>>
    /\ Head(next_sounds).source.len > 0

\* ------------------------------------------------------------------ C15

\* The source is a silence none of whose samples has been taken: 1 channel
\* at 44000 Hz, and 10 ms of samples, which is more than none.
FreshFiller(s) ==
    /\ s.kind = "Zero"
    /\ s.pos = 0
    /\ s.len > 0
    /\ s.len * 1000 = FillerMillis * ZeroRate * ZeroChannels
    /\ source_channels(s) = ZeroChannels
    /\ source_samples_rate(s) = ZeroRate

\* C15: with keep_alive_if_empty, a guarded block that finds the Vec empty
\* hands on a fresh silence of 1 channel at 44000 Hz and 10 ms, without a
\* sender, whatever the source before it was; while a silence is current
\* the output reports 1 channel and 44000 Hz and holds no sender; and every
\* sample returned that is not a sample of an appended source has the value
\* zero.
C15_SilenceFillerShape ==
    [][ /\ (InspectsVec /\ next_sounds = <<>> /\ keep_alive_if_empty) =>
              /\ FreshFiller(picked'.source)
              /\ picked'.signal = None
        /\ current'.kind = "Zero" =>
              /\ source_channels(current') = ZeroChannels
              /\ source_samples_rate(current') = ZeroRate
              /\ signal_after_end' = None
        /\ (ConsumerReturns /\ ret'.tag = "Some" /\ out' = out) =>
              /\ current.kind = "Zero"
              /\ sample_value(ret') = 0
      ]_vars

\* A 2-channel 48000 Hz source was played to its end and a silence took
\* over: the output reports 1 channel at 44000 Hz and the last pull
\* returned a zero.
C15_Witness ==
    /\ adopted # <<>>
    /\ source_channels(appended[PushIndex(adopted[Len(adopted)])].source) = 2
    /\ current.kind = "Zero"
    /\ current.pos > 0
    /\ get_channels = ZeroChannels
    /\ get_samples_rate = ZeroRate
    /\ ret.tag = "Some"
    /\ sample_value(ret) = 0

\* ------------------------------------------------------------------ C16

\* What the guarded block does, given the Vec and keep_alive_if_empty only.
BlockOutcome ==
    /\ next_sounds # <<>> =>
          /\ picked' = Head(next_sounds)
          /\ next_sounds' = Tail(next_sounds)
          /\ cpc' = "adopt"
          /\ ret' = ret
    /\ (next_sounds = <<>> /\ keep_alive_if_empty) =>
          /\ picked' = Entry(silence, None)
          /\ next_sounds' = next_sounds
          /\ cpc' = "adopt"
          /\ ret' = ret
    /\ (next_sounds = <<>> /\ ~keep_alive_if_empty) =>
          /\ next_sounds' = next_sounds
          /\ cpc' = "idle"
          /\ ret' = RetNone

\* C16: a send on a sender whose Receiver was dropped fails and nothing
\* comes of it but that the notification is not delivered: the sending step
\* of go_next leaves current, the Vec and the returned value alone, empties
\* signal_after_end and goes on to the lock whether the Receiver is there or
\* not; the guarded block then acts on the Vec and keep_alive_if_empty only,
\* and the picked entry becomes current with its own sender; the drop of a
\* Receiver itself changes nothing in the queue.
C16_DroppedReceiver ==
    [][ /\ (cpc = "go_next" /\ cpc' # "go_next") =>
              /\ cpc' = "lock"
              /\ signal_after_end' = None
              /\ UNCHANGED <<current, next_sounds, picked, ret, mutex, out>>
              /\ sent' = IF signal_after_end # None
                         THEN Append(sent, signal_after_end[1]) ELSE sent
              /\ delivered' = IF signal_after_end # None
                                 /\ signal_after_end[1] \notin dropped
                              THEN Append(delivered, signal_after_end[1])
                              ELSE delivered
        /\ InspectsVec => BlockOutcome
        /\ (cpc = "adopt" /\ cpc' # "adopt") =>
              /\ current' = picked.source
              /\ signal_after_end' = picked.signal
              /\ cpc' = "loop"
        /\ dropped' # dropped =>
              UNCHANGED <<next_sounds, mutex, current, signal_after_end, cpc,
                          picked, ppc, arg, ret, sent, delivered>>
      ]_vars

\* The Receiver of an entry was dropped before the entry was retired: its
\* notification was sent and not delivered, and the pull went on to return
\* a sample of the entry pushed after it.
C16_Witness ==
    /\ Len(appended) = 2
    /\ appended[1].source.id \in dropped
    /\ sent = <<appended[1].source.id>>
    /\ delivered = <<>>
    /\ cpc = "idle"
    /\ current.id = appended[2].source.id
    /\ ret.tag = "Some"
    /\ ret.src = current.id

\* ------------------------------------------------------------------ C17

\* This step is a step of some producer inside append or append_with_signal.
ProducerSteps == ppc' # ppc

\* The append* calls that have been made and have not pushed yet.
InFlight == Cardinality({p \in Producers : ppc[p] # "idle"})

\* C17: a step of append or append_with_signal changes nothing of the
\* output (current, signal_after_end, the reported channels, rate and frame
\* length, the consumer's position and results), and either leaves the Vec
\* alone or puts exactly one entry, the caller's, at its tail, the entries
\* before it staying as they were; each call pushes exactly once. The Vec
\* grows in no other step, shrinks only in the guarded block of go_next and
\* then by its head, and is never changed in place; a pull that returns a
\* sample leaves it as it is. Until a pull adopts something, current is the
\* Empty placeholder whatever has been appended.
C17_FrameOfAppendAndPop ==
    [][ /\ ProducerSteps =>
              /\ UNCHANGED <<current, signal_after_end, cpc, picked, ret, out,
                             sent, adopted, keep_alive_if_empty>>
              /\ source_channels(current') = get_channels
              /\ source_samples_rate(current') = get_samples_rate
              /\ source_frame_len(current') = get_current_frame_len
              /\ \/ next_sounds' = next_sounds /\ appended' = appended
                 \/ \E p \in Producers :
                       /\ ppc[p] = "push"
                       /\ next_sounds' = Append(next_sounds, arg[p])
                       /\ appended' = Append(appended, arg[p])
        /\ Len(appended') + InFlight' = TotalCalls'
        /\ Len(next_sounds') > Len(next_sounds) =>
              /\ ProducerSteps
              /\ Len(next_sounds') = Len(next_sounds) + 1
              /\ SubSeq(next_sounds', 1, Len(next_sounds)) = next_sounds
        /\ Len(next_sounds') < Len(next_sounds) =>
              /\ InspectsVec
              /\ next_sounds' = Tail(next_sounds)
        /\ Len(next_sounds') = Len(next_sounds) => next_sounds' = next_sounds
        /\ (ConsumerReturns /\ ret'.tag = "Some") => next_sounds' = next_sounds
        /\ adopted' = <<>> => current'.kind \in {"Empty", "Zero"}
      ]_vars

\* Two entries were appended before anything was adopted: the Vec holds
\* them in push order and the output still reports the placeholder.
C17_Witness ==
    /\ adopted = <<>>
    /\ current = Empty
    /\ Len(next_sounds) = 2
    /\ next_sounds = appended
    /\ get_channels = source_channels(Empty)

\* ------------------------------------------------------------------ C18

\* The last pull returned the last sample of current, a source pushed with
\* a sender, and no pull has been made since.
JustPlayedOut ==
    /\ cpc = "idle"
    /\ HasSender(current)
    /\ current.len > 0
    /\ Exhausted(current)
    /\ ret = RetSome([src |-> current.id, idx |-> current.len - 1])

\* C18: no step that returns a sample sends a notification, so the pull
\* that returns the last sample of an entry does not notify; once that pull
\* has returned, the notification has not been sent and the sender is still
\* in signal_after_end, and it stays so whatever the producers do: only the
\* first step of go_next sends, in a later pull, the one that finds current
\* without a sample, and that pull does send it. A consumer that stops
\* pulling there leaves the notification unsent for good.
C18_SignalOnNextPull ==
    [][ /\ (ConsumerReturns /\ ret'.tag = "Some") => sent' = sent
        /\ JustPlayedOut' =>
              /\ ~WasSent(current.id)'
              /\ signal_after_end' = Some(current'.id)
        /\ (JustPlayedOut /\ cpc' = "idle") => JustPlayedOut'
        /\ sent' # sent => cpc = "go_next" /\ Exhausted(current)
        /\ (JustPlayedOut /\ cpc' # "idle") => cpc' = "go_next"
        /\ (cpc = "go_next" /\ cpc' # "go_next" /\ HasSender(current)) =>
              WasSent(current.id)'
      ]_vars

\* The pull that returned the last sample of a 2-sample entry pushed with a
\* sender has returned; a producer has pushed since; nothing has been sent.
C18_Witness ==
    /\ JustPlayedOut
    /\ next_sounds # <<>>
    /\ sent = <<>>

\* ------------------------------------------------------------------ C19

\* signal_after_end holds a sender only while current is an entry pushed by
\* append_with_signal whose notification has not been sent, and then it is
\* that entry's own sender; it is None while current is the Empty
\* placeholder, a silence, or an entry pushed by append.
Paired ==
    /\ signal_after_end # None =>
          /\ HasSender(current)
          /\ signal_after_end = appended[PushIndex(current.id)].signal
          /\ signal_after_end = Some(current.id)
          /\ ~WasSent(current.id)
    /\ current.kind \in {"Empty", "Zero"} => signal_after_end = None
    /\ (current.kind = "Src" /\ ~HasSender(current)) => signal_after_end = None
    /\ (HasSender(current) /\ ~WasSent(current.id)) =>
          signal_after_end = Some(current.id)

\* C19: in every reachable state signal_after_end and current are paired as
\* above, and a step that sends a notification sends the one of the source
\* that is current in that step, the outgoing one, and of no other entry.
C19_PairingInvariant ==
    [][ /\ Paired'
        /\ sent' # sent =>
              /\ HasSender(current)
              /\ signal_after_end = Some(current.id)
              /\ sent' = Append(sent, current.id)
      ]_vars

\* The first entry's notification has been sent; the second entry, also
\* pushed with a sender, is being played and signal_after_end holds the
\* second entry's sender.
C19_Witness ==
    /\ Len(adopted) = 2
    /\ sent = <<adopted[1]>>
    /\ current.id = adopted[2]
    /\ current.pos > 0
    /\ signal_after_end = Some(adopted[2])

====
